---- MODULE Spec2Model ----
(***************************************************************************)
(* Model of GUID-search/extract_guid_with_macos.py: the pipeline           *)
(* restart_device -> wait_for_device -> collect_syslog_archive ->          *)
(* extract_guid_from_archive driven by main, with the external commands,   *)
(* the clock and the file system as the environment.                       *)
(*                                                                         *)
(* Text is a sequence of one-character strings.  The standard output of    *)
(* the program is abstracted to the set of message texts printed so far    *)
(* (interpolated values dropped), plus the identifier shown in the         *)
(* success message.                                                        *)
(***************************************************************************)
EXTENDS Integers, Sequences, FiniteSets, TLC

\* ------------------------------------------------------------------ bounds
MaxLines == 2      \* lines written by the log query
MaxDepth == 2      \* deepest nesting of a file inside the archive

\* ------------------------------------------------------- program constants
WaitTimeout      == 180        \* main: wait_for_device(180)
PresenceTimeout  == 10         \* run_command([... "ideviceinfo" ...], timeout=10)
PollInterval     == 3          \* time.sleep(3)
SettleDelay      == 10         \* time.sleep(10)
MinArchiveSize   == 10000000   \* total_size < 10_000_000
TimeoutStatus    == 124        \* return 124, "", "Timeout expired"

BLDB_FILENAME == <<"B","L","D","a","t","a","b","a","s","e","M","a","n","a","g","e","r",".","s","q","l","i","t","e">>
TimeoutText   == <<"T","i","m","e","o","u","t"," ","e","x","p","i","r","e","d">>

\* Optional[str]: None, or a text
None    == [some |-> FALSE, val |-> <<>>]
Some(s) == [some |-> TRUE, val |-> s]

\* ------------------------------------------------------------ text helpers
Whitespace == {" ", "\n", "\t"}

Min(S) == CHOOSE x \in S : \A y \in S : x <= y
Max(S) == CHOOSE x \in S : \A y \in S : x >= y

\* str.strip(): drop the leading and trailing whitespace
Strip(s) ==
    IF \A k \in 1..Len(s) : s[k] \in Whitespace THEN <<>>
    ELSE LET first == CHOOSE k \in 1..Len(s) :
                         s[k] \notin Whitespace /\ \A j \in 1..(k - 1) : s[j] \in Whitespace
             last  == CHOOSE k \in 1..Len(s) :
                         s[k] \notin Whitespace /\ \A j \in (k + 1)..Len(s) : s[j] \in Whitespace
         IN SubSeq(s, first, last)

\* str.splitlines(), with "\n" as the line boundary: one line per newline,
\* and one more for what follows the last newline, if anything does
SplitLines(s) ==
    LET nl     == {k \in 1..Len(s) : s[k] = "\n"}
        nth(n) == CHOOSE p \in nl : Cardinality({q \in nl : q <= p}) = n
        last   == IF nl = {} THEN 0 ELSE Max(nl)
        count  == Cardinality(nl) + (IF last < Len(s) THEN 1 ELSE 0)
        from(n) == IF n = 1 THEN 1 ELSE nth(n - 1) + 1
        to(n)   == IF n <= Cardinality(nl) THEN nth(n) - 1 ELSE Len(s)
    IN [n \in 1..count |-> SubSeq(s, from(n), to(n))]

\* needle in line
Contains(line, needle) ==
    \E i \in 1..(Len(line) - Len(needle) + 1) :
        \A k \in 1..Len(needle) : line[i + k - 1] = needle[k]

HexDigits == {"0","1","2","3","4","5","6","7","8","9",
              "a","b","c","d","e","f","A","B","C","D","E","F"}

GuidLen == 36
HyphenAt == {9, 14, 19, 24}

\* GUID_REGEX matches line[i .. i+35]
MatchesAt(line, i) ==
    /\ i + GuidLen - 1 <= Len(line)
    /\ \A k \in HyphenAt : line[i + k - 1] = "-"
    /\ \A k \in (1..GuidLen) \ HyphenAt : line[i + k - 1] \in HexDigits

MatchPositions(line) == {i \in 1..Len(line) : MatchesAt(line, i)}

\* GUID_REGEX.search(line): the leftmost match, or None
GuidSearch(line) ==
    IF MatchPositions(line) = {} THEN None
    ELSE LET i == Min(MatchPositions(line)) IN Some(SubSeq(line, i, i + GuidLen - 1))

UpperChar(c) ==
    CASE c = "a" -> "A" [] c = "b" -> "B" [] c = "c" -> "C"
      [] c = "d" -> "D" [] c = "e" -> "E" [] c = "f" -> "F"
      [] OTHER -> c

\* the match returned as it stands
Upper_Identity(s) == s

\* str.upper() on the characters an identifier can hold
Upper(s) == [k \in 1..Len(s) |-> UpperChar(s[k])]

\* a loop that stops at the first line containing the marker
ScanLines_FirstOnly(lines, from) ==
    LET marked == {k \in from..Len(lines) : Contains(lines[k], BLDB_FILENAME)}
    IN IF marked = {} \/ GuidSearch(lines[Min(marked)]) = None THEN None
       ELSE Some(Upper(GuidSearch(lines[Min(marked)]).val))

\* the for loop of extract_guid_from_archive over lines[from..]
RECURSIVE ScanLines(_, _)
ScanLines(lines, from) ==
    IF from > Len(lines) THEN None
    ELSE IF Contains(lines[from], BLDB_FILENAME) /\ GuidSearch(lines[from]) /= None
         THEN Some(Upper(GuidSearch(lines[from]).val))
         ELSE ScanLines(lines, from + 1)

\* does the loop reach a line containing the marker (the "Found relevant line" print)
MarkerLines(lines) == {k \in 1..Len(lines) : Contains(lines[k], BLDB_FILENAME)}

\* --------------------------------------------------------- external calls
\* What a child process does: it exits with a status, is killed by the
\* timeout, or cannot be launched at all (subprocess.run raises OSError).
Outcome(kind, status, out, err) == [kind |-> kind, status |-> status, stdout |-> out, stderr |-> err]

\* run_command: the value returned;  only defined when the call does not raise
run_command(o) ==
    IF o.kind = "timeout"
    THEN [code |-> TimeoutStatus, stdout |-> <<>>, stderr |-> TimeoutText]
    ELSE [code |-> o.status, stdout |-> Strip(o.stdout), stderr |-> Strip(o.stderr)]

\* run_command without its except clause
Raises_OnTimeout(o) == o.kind \in {"oserror", "timeout"}

\* run_command lets the error of a command that cannot be launched through
Raises(o) == o.kind = "oserror"

\* ------------------------------------------------------------ file system
\* The file system is a set of entries [path, isfile, size].
TmpDir      == <<"tmp">>                          \* tempfile.TemporaryDirectory()
ArchivePath == TmpDir \o <<"ios_logs.logarchive">> \* tmp_path / "ios_logs.logarchive"

Entry(p, f, n) == [path |-> p, isfile |-> f, size |-> n]

IsUnder(p, root) == Len(p) > Len(root) /\ SubSeq(p, 1, Len(root)) = root

\* Path.exists(), Path.is_dir()
Exists(files, p) == \E e \in files : e.path = p
IsDir(files, p)  == \E e \in files : e.path = p /\ ~e.isfile

\* archive_path.rglob('*')
RGlob(files, root) == {e \in files : IsUnder(e.path, root)}

RECURSIVE SumSizes(_)
SumSizes(S) == IF S = {} THEN 0
               ELSE LET e == CHOOSE x \in S : TRUE IN e.size + SumSizes(S \ {e})

\* the sum taken over every entry, directories included
TotalSize_AllEntries(files, root) == SumSizes(RGlob(files, root))

\* sum(f.stat().st_size for f in archive_path.rglob('*') if f.is_file())
TotalSize(files, root) == SumSizes({e \in RGlob(files, root) : e.isfile})

\* the validation of collect_syslog_archive, lines 57-68
ArchiveOk(files, p) ==
    /\ Exists(files, p)
    /\ IsDir(files, p)
    /\ ~(TotalSize(files, p) < MinArchiveSize)

\* TemporaryDirectory.__exit__: remove the directory and all below it
Cleanup(files, root) == {e \in files : ~(e.path = root \/ IsUnder(e.path, root))}

\* ---------------------------------------------- what the environment does
FileSizes == {1, 3000000, 9999999}

Subdirs(k) == [i \in 1..k |-> "sub"]
DirAt(k)   == ArchivePath \o Subdirs(k)
FileAt(k)  == DirAt(k) \o <<"f">>

\* a layout gives the size of the file held at some of the depths
Layouts == UNION {[D -> FileSizes] : D \in SUBSET (0..MaxDepth)}

\* an archive directory holding one file of size l[k] at each depth k of l
TreeEntries(l) ==
    {Entry(ArchivePath, FALSE, 4096)}
      \cup {Entry(FileAt(k), TRUE, l[k]) : k \in DOMAIN l}
      \cup {Entry(DirAt(k), FALSE, 4096) :
               k \in {j \in 1..MaxDepth : \E m \in DOMAIN l : m >= j}}

\* what the collection command leaves at the target path: nothing, a
\* regular file, or a directory tree
Archives == {{}} \cup {{Entry(ArchivePath, TRUE, 20000000)}}
                 \cup {TreeEntries(l) : l \in Layouts}

GuidLower == <<"1","2","3","4","a","b","c","d","-","5","6","7","8","-","9","0","e","f","-","a","b","c","d","-","1","2","3","4","5","6","7","8","9","0","a","b">>
GuidUpper == <<"D","E","A","D","B","E","E","F","-","0","0","0","0","-","1","1","1","1","-","2","2","2","2","-","3","3","3","3","4","4","4","4","5","5","5","5">>

\* lines the log query may write
LineMarkGuid   == <<" ", "x", " ">> \o BLDB_FILENAME \o <<" ", "f">> \o GuidLower \o <<" ">>
LineMarkNoGuid == BLDB_FILENAME \o <<" ", "o", "p", "e", "n">>
LineMarkTwo    == BLDB_FILENAME \o <<":">> \o GuidUpper \o <<" ">> \o GuidLower
LineNoMarkGuid == <<"d", "b", " ">> \o GuidUpper

LineMarkBroken == SubSeq(GuidLower, 1, 35) \o <<"g", " ">> \o BLDB_FILENAME

SampleLines == {LineMarkGuid, LineMarkNoGuid, LineMarkTwo, LineNoMarkGuid, LineMarkBroken, <<>>}

LineSeqs == UNION {[1..n -> SampleLines] : n \in 0..MaxLines}

\* the bytes written: every line is terminated by a newline
RECURSIVE JoinLines(_)
JoinLines(ls) == IF ls = <<>> THEN <<>> ELSE Head(ls) \o <<"\n">> \o JoinLines(Tail(ls))

ErrText == <<" ","n","o"," ","d","e","v","i","c","e","\n">>

RebootOutcomes ==
    {Outcome("exit", s, <<>>, e) : s \in {0, 1}, e \in {<<>>, <<" ", "\n">>, ErrText}}
      \cup {Outcome("timeout", -9, <<"o", "k">>, <<>>), Outcome("oserror", 0, <<>>, <<>>)}

PresenceOutcomes ==
    {Outcome("exit", s, <<"u", "d", "i", "d", "\n">>, <<>>) : s \in {0, 1}}
      \cup {Outcome("timeout", -9, <<"u", "d", "i", "d", "\n">>, <<>>),
            Outcome("oserror", 0, <<>>, <<>>)}

\* how long a presence check takes: a timeout takes the whole 10 seconds
Durations(o) == IF o.kind = "timeout" THEN {PresenceTimeout}
                ELSE IF o.kind = "oserror" THEN {0}
                ELSE 0..PresenceTimeout

CollectOutcomes ==
    {Outcome("exit", s, <<>>, <<>>) : s \in {0, 1}}
      \cup {Outcome("timeout", -9, <<>>, <<>>), Outcome("oserror", 0, <<>>, <<>>)}

\* a command that could not be launched writes nothing
Written(o) == IF o.kind = "oserror" THEN {{}} ELSE Archives

QueryOutcomes ==
    {Outcome("exit", s, JoinLines(ls), <<>>) : s \in {0, 1}, ls \in LineSeqs}
      \cup {Outcome("timeout", -9, JoinLines(<<LineMarkGuid>>), <<>>),
            Outcome("oserror", 0, <<>>, <<>>)}

\* ------------------------------------------------------------------ state
VARIABLES
    pc,        \* where main (or the stage it called) stands
    calls,     \* the stages main has invoked, in order
    rets,      \* whether each invoked stage that returned reported success
    issued,    \* the external commands started so far
    reboots,   \* number of reboot commands sent
    printed,   \* message texts written to standard output
    reported,  \* the identifier shown in the success message
    raised,    \* an exception left main
    exitCode,  \* status of the process once it has exited, -1 before
    scope,     \* inside the "with tempfile.TemporaryDirectory()" block
    fs,        \* the file system
    timeout,   \* wait_for_device: parameter timeout
    elapsed,   \* wait_for_device: time.time() - start
    checks,    \* wait_for_device: presence checks issued by this call
    startedAt, \* wait_for_device: elapsed when the last check was issued
    okAt,      \* wait_for_device: elapsed when a check returned 0, -1 if none
    cmd,       \* outcome of the external command the stage has just run
    code,      \* the stage's local "code"
    stdout,    \* the stage's local "stdout"
    ret,       \* boolean returned by the stage that has just returned
    guid       \* result of extract_guid_from_archive

vars == <<pc, calls, rets, issued, reboots, printed, reported, raised, exitCode,
          scope, fs, timeout, elapsed, checks, startedAt, okAt, cmd, code, stdout,
          ret, guid>>

waitLocals == <<timeout, elapsed, checks, startedAt, okAt>>
history    == <<calls, rets, issued, reboots>>

NoCmd == Outcome("none", 0, <<>>, <<>>)

Init ==
    /\ pc = "main"
    /\ calls = <<>>
    /\ rets = <<>>
    /\ issued = {}
    /\ reboots = 0
    /\ printed = {"=== GUID Extraction ==="}
    /\ reported = None
    /\ raised = FALSE
    /\ exitCode = -1
    /\ scope = FALSE
    /\ fs = {}
    /\ timeout = 0
    /\ elapsed = 0
    /\ checks = 0
    /\ startedAt = 0
    /\ okAt = -1
    /\ cmd = NoCmd
    /\ code = 0
    /\ stdout = <<>>
    /\ ret = FALSE
    /\ guid = None

\* the frame of the stage that returned is dropped
PopFrame ==
    /\ timeout' = 0
    /\ elapsed' = 0
    /\ checks' = 0
    /\ startedAt' = 0
    /\ okAt' = -1
    /\ cmd' = NoCmd
    /\ code' = 0
    /\ stdout' = <<>>

\* the command ended with status 0 / did not (a fact about the child
\* process, whatever run_command makes of it)
Succeeded(o) == o.kind = "exit" /\ o.status = 0
Failed(o)    == o.kind = "timeout" \/ (o.kind = "exit" /\ o.status /= 0)

\* leaving the process without unwinding the with block
SysExit_NoCleanup(status) ==
    /\ pc' = "exited"
    /\ exitCode' = status
    /\ fs' = fs
    /\ scope' = FALSE

\* sys.exit(status): SystemExit unwinds the with block, if one is open,
\* which removes the temporary directory; then the process ends
SysExit(status) ==
    /\ pc' = "exited"
    /\ exitCode' = status
    /\ fs' = IF scope THEN Cleanup(fs, TmpDir) ELSE fs
    /\ scope' = FALSE

\* an exception nobody catches: it unwinds like SystemExit and the
\* interpreter ends with status 1
Uncaught(o) ==
    /\ SysExit(1)
    /\ raised' = TRUE
    /\ cmd' = o
    /\ printed' = printed \cup {"Traceback"}
    /\ UNCHANGED <<history, reported, waitLocals, code, stdout, ret, guid>>

\* main going on whatever the stage returned
StageFailed_Never(r) == FALSE

\* main lines 107, 111, 119: "if not <stage>(...)"
StageFailed(r) == ~r

\* ------------------------------------------------------- stage 1: reboot
\* a restart_device that sends the command once more after a failure
RestartDeviceCall_Retry ==
    /\ pc = "main" \/ (pc = "restart_ret" /\ ~ret /\ reboots < 2)
    /\ pc' = "restart_cmd"
    /\ calls' = IF pc = "main" THEN Append(calls, "restart_device") ELSE calls
    /\ rets' = IF pc = "main" THEN rets ELSE <<>>
    /\ issued' = issued \cup {"reboot"}
    /\ reboots' = reboots + 1
    /\ printed' = printed \cup {"Sending device reboot command..."}
    /\ UNCHANGED <<reported, raised, exitCode, scope, fs, waitLocals,
                   cmd, code, stdout, ret, guid>>

\* main line 107 calls restart_device, which starts the reboot command
RestartDeviceCall ==
    /\ pc = "main"
    /\ pc' = "restart_cmd"
    /\ calls' = Append(calls, "restart_device")
    /\ issued' = issued \cup {"reboot"}
    /\ reboots' = reboots + 1
    /\ printed' = printed \cup {"Sending device reboot command..."}
    /\ UNCHANGED <<rets, reported, raised, exitCode, scope, fs, waitLocals,
                   cmd, code, stdout, ret, guid>>

\* restart_device lines 27-34: the command ends, the result is reported
RestartDeviceDone ==
    /\ pc = "restart_cmd"
    /\ \E o \in RebootOutcomes :
         IF Raises(o) THEN Uncaught(o)
         ELSE LET r == run_command(o) IN
              /\ cmd' = o
              /\ code' = r.code
              /\ stdout' = r.stdout
              /\ ret' = (r.code = 0)
              /\ printed' = printed \cup
                    (IF r.code = 0 THEN {"Reboot command sent successfully"}
                     ELSE {"Error during reboot"} \cup
                          (IF r.stderr /= <<>> THEN {"<stderr of reboot>"} ELSE {}))
              /\ rets' = Append(rets, r.code = 0)
              /\ pc' = "restart_ret"
              /\ UNCHANGED <<calls, issued, reboots, reported, raised, exitCode,
                             scope, fs, waitLocals, guid>>

\* main line 107-108: if not restart_device(): sys.exit(1)
MainExitNoReboot ==
    /\ pc = "restart_ret"
    /\ StageFailed(ret)
    /\ SysExit(1)
    /\ PopFrame
    /\ UNCHANGED <<history, printed, reported, raised, ret, guid>>

\* ----------------------------------------------- stage 2: wait for device
\* wait_for_device is entered with timeout t; lines 37-39
WaitForDeviceEnter(t) ==
    /\ pc = "restart_ret"
    /\ ~StageFailed(ret)
    /\ pc' = "wait_loop"
    /\ calls' = Append(calls, "wait_for_device")
    /\ printed' = printed \cup {"Waiting for device to reconnect..."}
    /\ timeout' = t
    /\ elapsed' = 0
    /\ checks' = 0
    /\ startedAt' = 0
    /\ okAt' = -1
    /\ cmd' = NoCmd
    /\ code' = 0
    /\ stdout' = <<>>
    /\ UNCHANGED <<rets, issued, reboots, reported, raised, exitCode, scope, fs,
                   ret, guid>>

\* main line 111 calls wait_for_device(180)
WaitForDeviceCall == WaitForDeviceEnter(WaitTimeout)

\* the loop test allowing one more interval
BeforeDeadline_Grace(e, t) == e < t + PollInterval

\* the loop test written with <=
BeforeDeadline_Inclusive(e, t) == e <= t

\* line 40: while time.time() - start < timeout
BeforeDeadline(e, t) == e < t

\* lines 40-41: the deadline has not passed, a presence check is started
WaitStartCheck ==
    /\ pc = "wait_loop"
    /\ BeforeDeadline(elapsed, timeout)
    /\ pc' = "wait_cmd"
    /\ issued' = issued \cup {"presence"}
    /\ checks' = checks + 1
    /\ startedAt' = elapsed
    /\ UNCHANGED <<calls, rets, reboots, printed, reported, raised, exitCode,
                   scope, fs, timeout, elapsed, okAt, cmd, code, stdout, ret, guid>>

\* lines 48-49: the loop ends, wait_for_device returns False
WaitTimedOut ==
    /\ pc = "wait_loop"
    /\ ~BeforeDeadline(elapsed, timeout)
    /\ pc' = "wait_ret"
    /\ ret' = FALSE
    /\ rets' = Append(rets, FALSE)
    /\ printed' = printed \cup {"Timeout: device did not reconnect"}
    /\ UNCHANGED <<calls, issued, reboots, reported, raised, exitCode, scope, fs,
                   waitLocals, cmd, code, stdout, guid>>

\* taking every status but the timeout's for success
CheckPassed_NoTimeout(c) == c /= TimeoutStatus

\* line 42: if code == 0
CheckPassed(c) == c = 0

\* lines 41-46: the presence check ends after d seconds
WaitCheckDone ==
    /\ pc = "wait_cmd"
    /\ \E o \in PresenceOutcomes : \E d \in Durations(o) :
         IF Raises(o) THEN Uncaught(o)
         ELSE LET r == run_command(o) IN
              /\ cmd' = o
              /\ code' = r.code
              /\ stdout' = r.stdout
              /\ elapsed' = elapsed + d
              /\ okAt' = IF Succeeded(o) THEN elapsed + d ELSE okAt
              /\ pc' = IF CheckPassed(r.code) THEN "wait_settle" ELSE "wait_sleep"
              /\ printed' = printed \cup
                    (IF CheckPassed(r.code) THEN {"Device connected!"} ELSE {"."})
              /\ UNCHANGED <<history, reported, raised, exitCode, scope, fs,
                             timeout, checks, startedAt, ret, guid>>

\* a sleep that grows with the number of checks made
WaitSleep_Backoff ==
    /\ pc = "wait_sleep"
    /\ pc' = "wait_loop"
    /\ elapsed' = elapsed + PollInterval * checks
    /\ UNCHANGED <<history, printed, reported, raised, exitCode, scope, fs,
                   timeout, checks, startedAt, okAt, cmd, code, stdout, ret, guid>>

\* line 47: time.sleep(3)
WaitSleep ==
    /\ pc = "wait_sleep"
    /\ pc' = "wait_loop"
    /\ elapsed' = elapsed + PollInterval
    /\ UNCHANGED <<history, printed, reported, raised, exitCode, scope, fs,
                   timeout, checks, startedAt, okAt, cmd, code, stdout, ret, guid>>

\* lines 44-45: time.sleep(10); return True
WaitSettle ==
    /\ pc = "wait_settle"
    /\ pc' = "wait_ret"
    /\ elapsed' = elapsed + SettleDelay
    /\ ret' = TRUE
    /\ rets' = Append(rets, TRUE)
    /\ UNCHANGED <<calls, issued, reboots, printed, reported, raised, exitCode,
                   scope, fs, timeout, checks, startedAt, okAt, cmd, code, stdout, guid>>

\* main lines 111-112: if not wait_for_device(180): sys.exit(1)
MainExitNoDevice ==
    /\ pc = "wait_ret"
    /\ StageFailed(ret)
    /\ SysExit(1)
    /\ PopFrame
    /\ UNCHANGED <<history, printed, reported, raised, ret, guid>>

\* ------------------------------------------------ stage 3: collect archive
\* main line 115: with tempfile.TemporaryDirectory() as tmpdir_str
EnterScope ==
    /\ pc = "wait_ret"
    /\ ~StageFailed(ret)
    /\ pc' = "in_scope"
    /\ scope' = TRUE
    /\ fs' = fs \cup {Entry(TmpDir, FALSE, 4096)}
    /\ PopFrame
    /\ UNCHANGED <<history, printed, reported, raised, exitCode, ret, guid>>

\* main line 119 calls collect_syslog_archive; lines 53-55
CollectCall ==
    /\ pc = "in_scope"
    /\ pc' = "collect_cmd"
    /\ calls' = Append(calls, "collect_syslog_archive")
    /\ issued' = issued \cup {"collect"}
    /\ printed' = printed \cup {"Collecting syslog archive"}
    /\ UNCHANGED <<rets, reboots, reported, raised, exitCode, scope, fs,
                   waitLocals, cmd, code, stdout, ret, guid>>

\* a collector that also wants status 0 from the command
CollectResult_CheckCode(r, files) == r.code = 0 /\ ArchiveOk(files, ArchivePath)

\* lines 55-68: what collect_syslog_archive returns once run_command has
\* returned r and the file system is files
CollectResult(r, files) == ArchiveOk(files, ArchivePath)

\* lines 55-68: the command ends, leaving w at the target path; the archive
\* is validated
CollectDone ==
    /\ pc = "collect_cmd"
    /\ \E o \in CollectOutcomes : \E w \in Written(o) :
         IF Raises(o) THEN Uncaught(o)
         ELSE LET r  == run_command(o)
                  after == fs \cup w
                  ok == CollectResult(r, after)
              IN
              /\ cmd' = o
              /\ code' = r.code
              /\ stdout' = r.stdout
              /\ fs' = after
              /\ ret' = ok
              /\ rets' = Append(rets, ok)
              /\ printed' = printed \cup
                    (IF ~(Exists(after, ArchivePath) /\ IsDir(after, ArchivePath))
                     THEN {"Archive not created"}
                     ELSE IF ok THEN {"Archive collected"} ELSE {"Archive too small"})
              /\ pc' = "collect_ret"
              /\ UNCHANGED <<calls, issued, reboots, reported, raised, exitCode,
                             scope, waitLocals, guid>>

\* main lines 119-121: collection failed, sys.exit(1) inside the with block
MainExitNoArchive ==
    /\ pc = "collect_ret"
    /\ StageFailed(ret)
    /\ printed' = printed \cup {"Failed to collect archive"}
    /\ SysExit(1)
    /\ PopFrame
    /\ UNCHANGED <<history, reported, raised, ret, guid>>

\* ---------------------------------------------------- stage 4: extraction
\* main line 123 calls extract_guid_from_archive; lines 72-83
ExtractCall ==
    /\ pc = "collect_ret"
    /\ ~StageFailed(ret)
    /\ pc' = "extract_cmd"
    /\ calls' = Append(calls, "extract_guid_from_archive")
    /\ issued' = issued \cup {"query"}
    /\ printed' = printed \cup {"Searching for GUID in archive using log show..."}
    /\ PopFrame
    /\ UNCHANGED <<rets, reboots, reported, raised, exitCode, scope, fs, ret, guid>>

\* scanning the output whatever the status
ExtractResult_IgnoreCode(r) == ScanLines(SplitLines(r.stdout), 1)

\* lines 85-100 once run_command has returned r
ExtractResult(r) ==
    IF r.code /= 0 THEN None ELSE ScanLines(SplitLines(r.stdout), 1)

\* what lines 85-100 print when the function returns g
ExtractPrints(r, g) ==
    IF r.code /= 0 THEN {"log show exited with error"}
    ELSE (IF MarkerLines(SplitLines(r.stdout)) /= {} THEN {"Found relevant line:"} ELSE {})
           \cup (IF g /= None THEN {"GUID extracted"} ELSE {"GUID not found in archive"})

\* lines 83-100: the log query ends, the output is scanned
ExtractDone ==
    /\ pc = "extract_cmd"
    /\ \E o \in QueryOutcomes :
         IF Raises(o) THEN Uncaught(o)
         ELSE LET r == run_command(o) IN
              /\ cmd' = o
              /\ code' = r.code
              /\ stdout' = r.stdout
              /\ guid' = ExtractResult(r)
              /\ rets' = Append(rets, guid' /= None)
              /\ printed' = printed \cup ExtractPrints(r, guid')
              /\ pc' = "extract_ret"
              /\ UNCHANGED <<calls, issued, reboots, reported, raised, exitCode,
                             scope, fs, waitLocals, ret>>

\* main taking the success branch whatever was returned
Truthy_Always(g) == TRUE

\* "if guid:"
Truthy(g) == g.some /\ g.val /= <<>>

\* main lines 124-126: the identifier is printed, sys.exit(0) inside the with block
MainSuccess ==
    /\ pc = "extract_ret"
    /\ Truthy(guid)
    /\ printed' = printed \cup {"SUCCESS! GUID ="}
    /\ reported' = guid
    /\ SysExit(0)
    /\ PopFrame
    /\ UNCHANGED <<history, raised, ret, guid>>

\* main lines 124, 128-129: the with block is left, then sys.exit(1)
MainNotFound ==
    /\ pc = "extract_ret"
    /\ ~Truthy(guid)
    /\ printed' = printed \cup {"GUID not found"}
    /\ SysExit(1)
    /\ PopFrame
    /\ UNCHANGED <<history, reported, raised, ret, guid>>

Next ==
    \/ RestartDeviceCall
    \/ RestartDeviceDone
    \/ MainExitNoReboot
    \/ WaitForDeviceCall
    \/ WaitStartCheck
    \/ WaitTimedOut
    \/ WaitCheckDone
    \/ WaitSleep
    \/ WaitSettle
    \/ MainExitNoDevice
    \/ EnterScope
    \/ CollectCall
    \/ CollectDone
    \/ MainExitNoArchive
    \/ ExtractCall
    \/ ExtractDone
    \/ MainSuccess
    \/ MainNotFound

Spec == Init /\ [][Next]_vars

\* wait_for_device as a function of its parameter (line 37): the budgets it
\* may be given, the 180 seconds of main among them
WaitBudgets == {0, 1, PollInterval, PollInterval + 1, WaitTimeout}

WaitForDeviceAnyBudget == \E t \in WaitBudgets : WaitForDeviceEnter(t)

NextAnyBudget ==
    \/ RestartDeviceCall
    \/ RestartDeviceDone
    \/ MainExitNoReboot
    \/ WaitForDeviceAnyBudget
    \/ WaitStartCheck
    \/ WaitTimedOut
    \/ WaitCheckDone
    \/ WaitSleep
    \/ WaitSettle
    \/ MainExitNoDevice
    \/ EnterScope
    \/ CollectCall
    \/ CollectDone
    \/ MainExitNoArchive
    \/ ExtractCall
    \/ ExtractDone
    \/ MainSuccess
    \/ MainNotFound

\* The program is one sequential thread: every external call is bounded by
\* its timeout and every sleep is finite, so a step that can be taken is
\* eventually taken.
LiveSpec == Init /\ [][NextAnyBudget]_vars /\ WF_vars(NextAnyBudget)

TypeOK ==
    /\ pc \in {"main", "restart_cmd", "restart_ret", "wait_loop", "wait_cmd",
               "wait_sleep", "wait_settle", "wait_ret", "in_scope", "collect_cmd",
               "collect_ret", "extract_cmd", "extract_ret", "exited"}
    /\ exitCode \in {-1, 0, 1}
    /\ Len(rets) <= Len(calls)

\* ================================================================ claims
StageOrder == <<"restart_device", "wait_for_device",
                "collect_syslog_archive", "extract_guid_from_archive">>

\* C1: the stages are invoked in the order restart_device, wait_for_device,
\* collect_syslog_archive, extract_guid_from_archive, each at most once, and
\* only after every earlier stage returned success; when restart_device
\* returns false no presence check, no collection and no log query is ever
\* issued and the run exits with code 1.
C1_StagesInOrder ==
    /\ Len(calls) <= Len(StageOrder)
    /\ calls = SubSeq(StageOrder, 1, Len(calls))
    /\ Len(rets) >= Len(calls) - 1
    /\ \A i \in 1..(Len(calls) - 1) : rets[i]
    /\ (Len(rets) >= 1 /\ ~rets[1]) =>
          /\ issued = {"reboot"}
          /\ calls = <<"restart_device">>
          /\ pc \in {"restart_ret", "exited"}
          /\ pc = "exited" => exitCode = 1

C1_Witness ==
    /\ pc = "exited"
    /\ rets = <<FALSE>>
    /\ exitCode = 1
    /\ cmd.kind = "none"

\* C2: main exits with code 0 if and only if all four stages succeeded and
\* extract_guid_from_archive returned an identifier, which is the identifier
\* shown in the success message; in every other case it exits with code 1.
C2_ExitCode ==
    pc = "exited" =>
        /\ exitCode \in {0, 1}
        /\ exitCode = 0 <=> (Len(rets) = 4 /\ \A i \in 1..4 : rets[i])
        /\ exitCode = 0 =>
              /\ guid.some
              /\ Len(guid.val) = GuidLen
              /\ reported = guid
              /\ "SUCCESS! GUID =" \in printed
        /\ exitCode = 1 => (reported = None /\ "SUCCESS! GUID =" \notin printed)

C2_Witness ==
    /\ pc = "exited"
    /\ exitCode = 0
    /\ reported = Some(Upper(GuidLower))

\* C3: on every exit path of main the temporary archive directory does not
\* exist once the process has exited.
C3_NoResidue ==
    pc = "exited" =>
        /\ ~Exists(fs, TmpDir)
        /\ \A e \in fs : ~IsUnder(e.path, TmpDir)

C3_Witness ==
    /\ pc = "exited"
    /\ raised
    /\ "query" \in issued
    /\ ~Exists(fs, ArchivePath)

\* C4: wait_for_device returns false if every presence check it issued
\* failed, and returns true on the first presence check that ends with
\* status 0, after the settle delay, however many failed checks came before;
\* no check is issued after the first success.
C4_WaitResult ==
    /\ pc = "wait_ret" => (ret <=> okAt /= -1)
    /\ (pc = "wait_ret" /\ ret) => elapsed = okAt + SettleDelay
    /\ pc = "wait_settle" => (okAt = elapsed /\ Succeeded(cmd))
    /\ pc \in {"wait_loop", "wait_cmd", "wait_sleep"} => okAt = -1

C4_Witness ==
    /\ pc = "wait_ret"
    /\ ret
    /\ checks = 4
    /\ "." \in printed

RECURSIVE SizeDownTo(_)
SizeDownTo(k) ==
    IF k < 0 THEN 0
    ELSE SizeDownTo(k - 1) +
         (IF \E e \in fs : e.path = FileAt(k) /\ e.isfile
          THEN (CHOOSE e \in fs : e.path = FileAt(k) /\ e.isfile).size ELSE 0)

ArchiveBytes == SizeDownTo(MaxDepth)

ArchiveIsDir == Entry(ArchivePath, FALSE, 4096) \in fs

\* C6: collect_syslog_archive returns true if and only if the target path
\* exists, is a directory and the sizes of the regular files under it sum to
\* at least 10,000,000 bytes, for any number of files and any nesting; when
\* it returns false the log query is never issued and the run exits with 1.
C6_ArchiveSize ==
    /\ pc = "collect_ret" => (ret <=> (ArchiveIsDir /\ ArchiveBytes >= MinArchiveSize))
    /\ (Len(rets) >= 3 /\ ~rets[3]) =>
          /\ "query" \notin issued
          /\ pc \in {"collect_ret", "exited"}
          /\ pc = "exited" => exitCode = 1

C6_Witness ==
    /\ pc = "collect_ret"
    /\ ret
    /\ ArchiveBytes = MinArchiveSize
    /\ \E e \in fs : e.path = FileAt(MaxDepth) /\ e.size = 1

\* the boundary from below: 9,999,999 bytes in a directory are refused
C6_WitnessBelow ==
    /\ pc = "collect_ret"
    /\ ~ret
    /\ ArchiveIsDir
    /\ ArchiveBytes = MinArchiveSize - 1

\* C7 as stated: whenever the collection command fails (non-zero status or
\* timeout), collect_syslog_archive returns false.
C7_Original ==
    (pc = "collect_ret" /\ Failed(cmd)) => ~ret

\* C7 amended: when the collection command fails, the archive alone decides:
\* collect_syslog_archive returns false, the log query is not issued and the
\* process exits with code 1 if the target is missing, not a directory or
\* under 10,000,000 bytes; it returns true if the failed command left a
\* directory of at least 10,000,000 bytes.
C7_FailedCollect ==
    /\ (pc = "collect_ret" /\ Failed(cmd)) =>
          /\ code /= 0
          /\ ret <=> (ArchiveIsDir /\ ArchiveBytes >= MinArchiveSize)
    /\ (pc = "exited" /\ Len(calls) = 3 /\ ~raised) =>
          /\ rets = <<TRUE, TRUE, FALSE>>
          /\ "query" \notin issued
          /\ exitCode = 1
          /\ "Failed to collect archive" \in printed

C7_Witness ==
    /\ pc = "collect_ret"
    /\ cmd.kind = "timeout"
    /\ ret
    /\ ArchiveBytes >= MinArchiveSize

\* the lines of the output the extractor was given
OutLines == SplitLines(stdout)
Marked   == {k \in 1..Len(OutLines) : Contains(OutLines[k], BLDB_FILENAME)}
MarkedWithId == {k \in Marked : GuidSearch(OutLines[k]).some}

C9_ExtractionFailures ==
    /\ (pc = "extract_ret" /\ Failed(cmd)) =>
          /\ guid = None
          /\ "log show exited with error" \in printed
          /\ "GUID not found in archive" \notin printed
          /\ "Found relevant line:" \notin printed
    /\ (pc = "extract_ret" /\ Succeeded(cmd) /\ Marked = {}) =>
          /\ guid = None
          /\ "GUID not found in archive" \in printed
          /\ "log show exited with error" \notin printed
    /\ (pc = "exited" /\ ("log show exited with error" \in printed
                            \/ "GUID not found in archive" \in printed)) =>
          /\ exitCode = 1
          /\ ~("log show exited with error" \in printed
                 /\ "GUID not found in archive" \in printed)

C9_Witness ==
    /\ pc = "extract_ret"
    /\ cmd.kind = "exit"
    /\ cmd.status = 1
    /\ ScanLines(SplitLines(Strip(cmd.stdout)), 1) /= None
    /\ guid = None

\* C10: an expired timeout makes run_command return status 124 with empty
\* output and never raises; in restart_device, wait_for_device and
\* extract_guid_from_archive a timeout has the same result and next step as
\* a non-zero exit status.
C10_TimeoutIsFailure ==
    /\ raised => cmd.kind = "oserror"
    /\ (cmd.kind = "timeout" /\ pc /= "exited") =>
          /\ code = TimeoutStatus
          /\ code /= 0
          /\ stdout = <<>>
    /\ Failed(cmd) =>
          /\ pc \in {"restart_ret", "wait_sleep", "wait_loop", "wait_cmd", "wait_ret",
                     "collect_ret", "extract_ret"}
          /\ pc = "wait_sleep" => "." \in printed
          /\ pc = "wait_ret" => ~ret
          /\ pc = "restart_ret" => (~ret /\ "Error during reboot" \in printed)
          /\ pc = "extract_ret" => (guid = None /\ "log show exited with error" \in printed)

C10_Witness ==
    /\ pc = "extract_ret"
    /\ cmd.kind = "timeout"
    /\ cmd.stdout /= <<>>
    /\ stdout = <<>>
    /\ ~raised

\* C11: whatever the outcome of an external invocation, a launch error
\* included, every stage hands a boolean or optional result back to main and
\* no exception leaves a stage; restart_device returns false when the reboot
\* invocation errors.
C11_NoPropagation ==
    /\ ~raised
    /\ pc = "exited" => Len(rets) = Len(calls)
    /\ (cmd.kind = "oserror" /\ calls = <<"restart_device">>) => rets = <<FALSE>>

\* the identifier grammar, written out: 8-4-4-4-12 digits taken from ds
HasIdForm(t, ds) ==
    /\ Len(t) = 36
    /\ \A k \in 1..36 : IF k \in {9, 14, 19, 24} THEN t[k] = "-" ELSE t[k] \in ds

AnyCaseHex == {"0","1","2","3","4","5","6","7","8","9"}
                \cup {"a","b","c","d","e","f"} \cup {"A","B","C","D","E","F"}
UpperHex   == {"0","1","2","3","4","5","6","7","8","9"} \cup {"A","B","C","D","E","F"}

CasePairs == {<<"a","A">>, <<"b","B">>, <<"c","C">>, <<"d","D">>, <<"e","E">>, <<"f","F">>}

SameUpToCase(a, b) ==
    /\ Len(a) = Len(b)
    /\ \A k \in 1..Len(a) : a[k] = b[k] \/ <<a[k], b[k]>> \in CasePairs
                                        \/ <<b[k], a[k]>> \in CasePairs

IdStarts(line) == {i \in 1..(Len(line) - 35) : HasIdForm(SubSeq(line, i, i + 35), AnyCaseHex)}

\* the line the result is taken from: the first one holding marker and token
IdLines == {k \in 1..Len(OutLines) :
               Contains(OutLines[k], BLDB_FILENAME) /\ IdStarts(OutLines[k]) /= {}}

LeftmostId(line) == SubSeq(line, Min(IdStarts(line)), Min(IdStarts(line)) + 35)

\* C12: a returned identifier is the leftmost 8-4-4-4-12 hexadecimal token
\* of the selected marker line in upper case: 36 characters, hyphens at
\* positions 9, 14, 19 and 24, only 0-9 and A-F elsewhere, equal to the
\* matched text up to letter case.
C12_IdentifierForm ==
    (pc = "extract_ret" /\ guid.some) =>
        /\ IdLines /= {}
        /\ HasIdForm(guid.val, UpperHex)
        /\ SameUpToCase(guid.val, LeftmostId(OutLines[Min(IdLines)]))
        /\ \A k \in 1..36 : guid.val[k] \notin {"a","b","c","d","e","f"}

C12_Witness ==
    /\ pc = "extract_ret"
    /\ guid.some
    /\ IdLines /= {}
    /\ Min(IdStarts(OutLines[Min(IdLines)])) > 1
    /\ LeftmostId(OutLines[Min(IdLines)]) /= guid.val
    /\ Cardinality(IdStarts(OutLines[Min(IdLines)])) = 1

\* the leftmost of two tokens on the selected line is the one returned
C12_WitnessLeftmost ==
    /\ pc = "extract_ret"
    /\ guid.some
    /\ IdLines /= {}
    /\ Cardinality(IdStarts(OutLines[Min(IdLines)])) = 2
    /\ guid.val = GuidUpper

\* C13: in every run exactly one reboot command is sent, whatever its
\* outcome: no retry after a failure or a timeout, and no second reboot
\* command from a later stage.
C13_OneReboot ==
    /\ reboots <= 1
    /\ pc /= "main" => (reboots = 1 /\ "reboot" \in issued)
    /\ pc = "main" => (reboots = 0 /\ issued = {})
    /\ Len(rets) >= 1 => reboots = 1

C13_Witness ==
    /\ pc = "exited"
    /\ reboots = 1
    /\ rets = <<FALSE>>
    /\ "Error during reboot" \in printed
    /\ "<stderr of reboot>" \in printed

\* the states of the reconnection waiter
Waiting  == pc \in {"wait_loop", "wait_cmd", "wait_sleep"}
Settling == pc = "wait_settle"
Ready    == pc = "wait_ret" /\ ret
TimedOut == pc = "wait_ret" /\ ~ret

C14_Step ==
    \* READY only through SETTLING, after the 10 seconds of the settle delay
    /\ (~Ready /\ Ready') => (Settling /\ elapsed' = elapsed + SettleDelay)
    \* SETTLING only from a presence check that ended with status 0
    /\ (~Settling /\ Settling') => (pc = "wait_cmd" /\ Succeeded(cmd'))
    \* SETTLING is left for READY only: one delay, no further check
    /\ (Settling /\ ~Settling') => (Ready' /\ checks' = checks /\ issued' = issued)
    \* TIMED_OUT only from the deadline test of WAITING, with no delay
    /\ (~TimedOut /\ TimedOut') => (pc = "wait_loop" /\ elapsed' = elapsed /\ okAt = -1)
    \* a failed check is followed by the sleep ...
    /\ (pc = "wait_cmd" /\ pc' /= "wait_cmd" /\ Failed(cmd')) => pc' = "wait_sleep"
    \* ... of the same 3 seconds every time, and then by the deadline test
    /\ (pc = "wait_sleep" /\ pc' /= "wait_sleep") =>
          (pc' = "wait_loop" /\ elapsed' = elapsed + PollInterval)
    /\ (pc /= "wait_loop" /\ pc' = "wait_loop") => pc \in {"wait_sleep", "restart_ret"}
    \* a check is started by the deadline test only
    /\ checks' /= checks => ((pc = "wait_loop" /\ pc' = "wait_cmd") \/ checks' = 0)

\* C14: wait_for_device follows WAITING -> SETTLING -> READY or
\* WAITING -> TIMED_OUT: READY is reached only through SETTLING, the settle
\* delay is taken once and only after a check with status 0, no check is
\* issued after the first success, TIMED_OUT is reached only from WAITING
\* without the delay, and every failed check is followed by the same
\* 3-second sleep before the deadline is tested again.
C14_WaitMachine == [][C14_Step]_vars

C14_Witness ==
    /\ Ready
    /\ checks = 3
    /\ elapsed = 2 * PollInterval + SettleDelay
    /\ okAt = 2 * PollInterval

InWait == pc \in {"wait_loop", "wait_cmd", "wait_sleep", "wait_settle", "wait_ret"}

\* the checks made so far that have ended and, if failed, been slept after
ChecksSleptAfter == IF pc \in {"wait_loop", "wait_ret"} /\ okAt = -1 THEN checks ELSE checks - 1

C15_Bound ==
    InWait =>
        /\ pc = "wait_cmd" => startedAt < timeout
        /\ checks > 0 => elapsed >= PollInterval * ChecksSleptAfter
        /\ PollInterval * checks < timeout + PollInterval
        /\ timeout = WaitTimeout => checks <= 60
        /\ timeout = 0 => checks = 0

\* C15: wait_for_device terminates: a check is started only while the
\* elapsed time is below the timeout, every failed check advances the time
\* by at least the 3-second sleep, so at most ceil(timeout / 3) checks are
\* issued (60 for 180 seconds, none for 0); and every run of main eventually
\* exits with code 0 or 1.
C15_Terminates == []C15_Bound /\ <>(pc = "exited" /\ exitCode \in {0, 1})

C15_Witness ==
    /\ pc = "wait_cmd"
    /\ timeout = WaitTimeout
    /\ checks = 60
    /\ startedAt = WaitTimeout - PollInterval

\* with a budget of 0 the waiter gives up without a single check
C15_WitnessZero ==
    /\ pc = "wait_ret"
    /\ timeout = 0
    /\ checks = 0
    /\ ~ret

DirExists == Exists(fs, TmpDir)

C16_Inv ==
    \* no directory in a run that failed in stage 1 or 2, or before stage 3
    /\ (Len(rets) < 2 \/ ~rets[1] \/ ~rets[2]) => fs = {}
    \* the directory is there during the collection command and the log query
    /\ pc \in {"in_scope", "collect_cmd", "collect_ret", "extract_cmd", "extract_ret"}
          => (DirExists /\ scope)
    \* the archive that was validated is there during the whole query
    /\ pc \in {"extract_cmd", "extract_ret"} => ArchiveOk(fs, ArchivePath)

\* collection has failed: it returned false, or its command could not be run
CollectionFailed(o) == (pc = "collect_ret" /\ ~ret) \/ (pc = "collect_cmd" /\ o.kind = "oserror")

C16_Step ==
    /\ (~DirExists /\ DirExists') => (rets = <<TRUE, TRUE>> /\ pc = "wait_ret")
    /\ (DirExists /\ ~DirExists') => (pc = "extract_ret" \/ CollectionFailed(cmd'))
    /\ (Exists(fs, ArchivePath) /\ ~Exists(fs', ArchivePath))
          => (pc = "extract_ret" \/ CollectionFailed(cmd'))

\* C16: the temporary directory is created only after restart_device and
\* wait_for_device have succeeded, exists during the whole collection
\* command and log query, and is removed only after
\* extract_guid_from_archive has returned or collection has failed; the
\* archive is never removed between its validation and the end of the query.
C16_ScopedDirectory == []C16_Inv /\ [][C16_Step]_vars

\* what remains true of C16 when the log query cannot be launched
C16_ExceptQueryLaunchError ==
    []C16_Inv /\ [][C16_Step \/ (pc = "extract_cmd" /\ raised' /\ cmd'.kind = "oserror")]_vars

====
